---- MODULE Spec2Model ----
(***************************************************************************)
(* Model of src/decompress.rs: the expansion of a substitution-compressed  *)
(* Symbol.  The recursion of decompress_symbol / decompress_abs_path /     *)
(* decompress_path_prefix / decompress_type is unfolded on an explicit     *)
(* call stack; Arc identity (Arc::ptr_eq) is modelled by node addresses.   *)
(***************************************************************************)
EXTENDS Naturals, Sequences, FiniteSets

(* ------------------------------------------------------------------------ *)
(* Bounds of the explored inputs.                                           *)
(* ------------------------------------------------------------------------ *)

\* Subst ids occurring in the compressed input range over 0..MaxSubstId.
MaxSubstId == 2

\* Longest Tuple component list / Fn parameter list of the compressed input.
MaxList == 2

(* ------------------------------------------------------------------------ *)
(* AST nodes.  An Arc<T> is a record                                        *)
(*   addr : the allocation it points to (a sequence of naturals),           *)
(*   tag  : the enum variant,                                               *)
(*   kids : the Arc children in declaration order,                          *)
(*   sub  : the id of a Subst variant (0 otherwise),                        *)
(*   opt  : whether the Option field of the variant is Some                 *)
(*          (TraitImpl.impled_trait, Fn.return_type,                        *)
(*           Symbol.instantiating_crate),                                   *)
(*   data : the payload copied verbatim (ident, dis, abi, basic type ...).  *)
(* kids of TraitImpl = <<self_type>> \o impled_trait,                        *)
(* kids of Path      = <<name>> \o args,                                     *)
(* kids of Fn        = return_type \o params,                                *)
(* kids of Symbol    = <<name>> \o instantiating_crate.                      *)
(* ------------------------------------------------------------------------ *)

Node(tag, kids, sub, opt, data) ==
    [addr |-> <<>>, tag |-> tag, kids |-> kids, sub |-> sub, opt |-> opt, data |-> data]

PathPrefixTags == {"CrateId", "TraitImpl", "Node", "PathPrefix::Subst"}
AbsolutePathTags == {"Path", "AbsolutePath::Subst"}
UnaryTags == {"Ref", "RefMut", "RawPtrConst", "RawPtrMut", "Array"}
TypeTags == UnaryTags \cup {"BasicType", "Tuple", "Named", "Fn", "GenericParam", "Type::Subst"}
SubstTags == {"PathPrefix::Subst", "AbsolutePath::Subst", "Type::Subst"}

\* Arc::ptr_eq: two Arcs point to the same allocation.
Arc_ptr_eq(a, b) == a.addr = b.addr

\* Arc::new: a fresh allocation, numbered by the heap counter.
Arc_new(heap, node) == [node EXCEPT !.addr = <<1, heap>>]

(* ------------------------------------------------------------------------ *)
(* The Decompress state (the struct's four fields, as one record `self`).   *)
(* ------------------------------------------------------------------------ *)

\* HashMap::new
HashMap_new == <<>>

\* HashMap::insert: a present key is overwritten.
HashMap_insert(m, k, v) == [x \in (DOMAIN m) \cup {k} |-> IF x = k THEN v ELSE m[x]]

\* HashMap::get, as an Option (a sequence of length 0 or 1).
HashMap_get(m, k) == IF k \in DOMAIN m THEN <<m[k]>> ELSE <<>>

\* alloc_subst with a counter that is not advanced.
alloc_subst_NoIncrement(self, node, dict) ==
    [self EXCEPT ![dict] = HashMap_insert(@, self.subst_counter, node)]

alloc_subst(self, node, dict) ==
    LET subst == self.subst_counter
        counted == [self EXCEPT !.subst_counter = @ + 1]
    IN  [counted EXCEPT ![dict] = HashMap_insert(@, subst, node)]

\* What one expansion rule hands back: the state, the heap counter and the
\* returned Arc (ret = <<>> when the rule ran into unreachable!()).
Outcome(self, heap, ret) == [self |-> self, heap |-> heap, ret |-> ret]

\* A rule's `decompressed` value together with the heap counter after it.
Built(heap, node) == [heap |-> heap, node |-> node]

\* The argument list of a Path and GenericArgumentList::new_empty().
args_of(abs_path) == Tail(abs_path.kids)
new_empty == <<>>

\* GenericArgumentList::ptr_eq: same length and element-wise the same Arcs.
GenericArgumentList_ptr_eq(a, b) ==
    /\ Len(a) = Len(b)
    /\ \A i \in 1..Len(a) : Arc_ptr_eq(a[i], b[i])

\* .iter().zip(..).all(|(a, b)| Arc::ptr_eq(a, b))
zip_all_ptr_eq(a, b) ==
    LET n == IF Len(a) < Len(b) THEN Len(a) ELSE Len(b)
    IN  \A i \in 1..n : Arc_ptr_eq(a[i], b[i])

(* ------------------------------------------------------------------------ *)
(* decompress_path_prefix.  `kids` are the decompressed children, in the    *)
(* declaration order of the node's fields.                                  *)
(* ------------------------------------------------------------------------ *)

path_prefix_TraitImpl(heap, path_prefix, kids) ==
    Built(heap + 1, Arc_new(heap, [path_prefix EXCEPT !.kids = kids]))

\* Node that hands back the compressed node without looking at its prefix.
path_prefix_Node_AlwaysReuse(heap, path_prefix, kids) ==
    Built(heap, path_prefix)

path_prefix_Node(heap, path_prefix, kids) ==
    LET prefix == path_prefix.kids[1]
        decompressed_prefix == kids[1]
    IN  IF Arc_ptr_eq(prefix, decompressed_prefix)
        THEN Built(heap, path_prefix)
        ELSE Built(heap + 1, Arc_new(heap, [path_prefix EXCEPT !.kids = <<decompressed_prefix>>]))

\* Subst that falls back to the other two tables.
path_prefix_Subst_AnyTable(self, subst) ==
    IF subst \in DOMAIN self.path_prefixes THEN <<self.path_prefixes[subst]>>
    ELSE IF subst \in DOMAIN self.abs_paths THEN <<self.abs_paths[subst]>>
    ELSE HashMap_get(self.types, subst)

path_prefix_Subst(self, subst) ==
    HashMap_get(self.path_prefixes, subst)

\* Subst that also allocates an entry for what it resolved to.
path_prefix_alloc_AlsoSubst(self, path_prefix, ret) ==
    IF ret = <<>> THEN self ELSE alloc_subst(self, ret[1], "path_prefixes")

\* CrateId treated like a leaf that is not worth an entry.
path_prefix_alloc_SkipCrateId(self, path_prefix, ret) ==
    IF path_prefix.tag \in {"PathPrefix::Subst", "CrateId"}
    THEN self
    ELSE alloc_subst(self, ret[1], "path_prefixes")

\* The tail of decompress_path_prefix: Subst returned early, the rest allocate.
path_prefix_alloc(self, path_prefix, ret) ==
    IF path_prefix.tag = "PathPrefix::Subst"
    THEN self
    ELSE alloc_subst(self, ret[1], "path_prefixes")

decompress_path_prefix(self, heap, path_prefix, kids) ==
    LET decompressed ==
            CASE path_prefix.tag = "CrateId" -> Built(heap, path_prefix)
              [] path_prefix.tag = "TraitImpl" -> path_prefix_TraitImpl(heap, path_prefix, kids)
              [] path_prefix.tag = "Node" -> path_prefix_Node(heap, path_prefix, kids)
              [] OTHER -> Built(heap, path_prefix)
        ret == IF path_prefix.tag = "PathPrefix::Subst"
               THEN path_prefix_Subst(self, path_prefix.sub)
               ELSE <<decompressed.node>>
    IN  Outcome(path_prefix_alloc(self, path_prefix, ret), decompressed.heap, ret)

(* ------------------------------------------------------------------------ *)
(* decompress_abs_path                                                      *)
(* ------------------------------------------------------------------------ *)

\* Path that allocates whether or not it has arguments.
abs_path_Path_alloc_Always(self, abs_path, decompressed) ==
    alloc_subst(self, decompressed, "abs_paths")

abs_path_Path_alloc(self, abs_path, decompressed) ==
    IF args_of(abs_path) # <<>>
    THEN alloc_subst(self, decompressed, "abs_paths")
    ELSE self

abs_path_Path(self, heap, abs_path, kids) ==
    LET name == abs_path.kids[1]
        args == args_of(abs_path)
        new_path_prefix == kids[1]
        decompressed_args == Tail(kids)
        decompressed ==
            IF Arc_ptr_eq(name, new_path_prefix) /\ GenericArgumentList_ptr_eq(decompressed_args, args)
            THEN Built(heap, abs_path)
            ELSE Built(heap + 1,
                       Arc_new(heap, [abs_path EXCEPT !.kids = <<new_path_prefix>> \o decompressed_args]))
    IN  Outcome(abs_path_Path_alloc(self, abs_path, decompressed.node),
                decompressed.heap, <<decompressed.node>>)

abs_path_Subst(self, heap, subst) ==
    IF subst \in DOMAIN self.abs_paths
    THEN Outcome(self, heap, <<self.abs_paths[subst]>>)
    ELSE IF subst \in DOMAIN self.path_prefixes
    THEN Outcome(self, heap + 1,
                 <<Arc_new(heap, Node("Path", <<self.path_prefixes[subst]>> \o new_empty, 0, FALSE, ""))>>)
    ELSE Outcome(self, heap, <<>>)

decompress_abs_path(self, heap, abs_path, kids) ==
    IF abs_path.tag = "Path"
    THEN abs_path_Path(self, heap, abs_path, kids)
    ELSE abs_path_Subst(self, heap, abs_path.sub)

(* ------------------------------------------------------------------------ *)
(* decompress_type                                                          *)
(* ------------------------------------------------------------------------ *)

\* Ref, RefMut, RawPtrConst, RawPtrMut and Array(opt_size, _): five arms with
\* the same body, one inner type each.
type_Unary(heap, compressed, kids) ==
    LET compressed_inner == compressed.kids[1]
        decompressed_inner == kids[1]
    IN  IF Arc_ptr_eq(compressed_inner, decompressed_inner)
        THEN Built(heap, compressed)
        ELSE Built(heap + 1, Arc_new(heap, [compressed EXCEPT !.kids = <<decompressed_inner>>]))

type_Tuple(heap, compressed, kids) ==
    LET compressed_components == compressed.kids
        decompressed_components == kids
    IN  IF zip_all_ptr_eq(decompressed_components, compressed_components)
        THEN Built(heap, compressed)
        ELSE Built(heap + 1, Arc_new(heap, [compressed EXCEPT !.kids = decompressed_components]))

\* Named returns early: it never reaches the alloc_subst at the end.
type_Named(heap, compressed, kids) ==
    LET abs_path == compressed.kids[1]
        decompressed_abs_path == kids[1]
    IN  IF Arc_ptr_eq(abs_path, decompressed_abs_path)
        THEN Built(heap, compressed)
        ELSE Built(heap + 1, Arc_new(heap, [compressed EXCEPT !.kids = <<decompressed_abs_path>>]))

type_Fn(heap, compressed, kids) ==
    LET return_type == IF compressed.opt THEN <<compressed.kids[1]>> ELSE <<>>
        params == IF compressed.opt THEN Tail(compressed.kids) ELSE compressed.kids
        decompressed_return_type == IF compressed.opt THEN <<kids[1]>> ELSE <<>>
        decompressed_params == IF compressed.opt THEN Tail(kids) ELSE kids
        return_types_same ==
            IF return_type # <<>>
            THEN Arc_ptr_eq(return_type[1], decompressed_return_type[1])
            ELSE TRUE
    IN  IF return_types_same /\ zip_all_ptr_eq(decompressed_params, params)
        THEN Built(heap, compressed)
        ELSE Built(heap + 1,
                   Arc_new(heap, [compressed EXCEPT !.kids = decompressed_return_type \o decompressed_params]))

\* Subst that wraps a type-table hit as if it were a path.
type_Subst_WrapTypeHit(self, heap, subst) ==
    IF subst \in DOMAIN self.types
    THEN Outcome(self, heap + 1, <<Arc_new(heap, Node("Named", <<self.types[subst]>>, 0, FALSE, ""))>>)
    ELSE IF subst \in DOMAIN self.abs_paths
    THEN Outcome(self, heap + 1, <<Arc_new(heap, Node("Named", <<self.abs_paths[subst]>>, 0, FALSE, ""))>>)
    ELSE IF subst \in DOMAIN self.path_prefixes
    THEN LET path == Arc_new(heap, Node("Path", <<self.path_prefixes[subst]>> \o new_empty, 0, FALSE, ""))
         IN  Outcome(self, heap + 2, <<Arc_new(heap + 1, Node("Named", <<path>>, 0, FALSE, ""))>>)
    ELSE Outcome(self, heap, <<>>)

type_Subst(self, heap, subst) ==
    IF subst \in DOMAIN self.types
    THEN Outcome(self, heap, <<self.types[subst]>>)
    ELSE IF subst \in DOMAIN self.abs_paths
    THEN Outcome(self, heap + 1, <<Arc_new(heap, Node("Named", <<self.abs_paths[subst]>>, 0, FALSE, ""))>>)
    ELSE IF subst \in DOMAIN self.path_prefixes
    THEN LET path == Arc_new(heap, Node("Path", <<self.path_prefixes[subst]>> \o new_empty, 0, FALSE, ""))
         IN  Outcome(self, heap + 2, <<Arc_new(heap + 1, Node("Named", <<path>>, 0, FALSE, ""))>>)
    ELSE Outcome(self, heap, <<>>)

\* The arms that `return` before the alloc_subst at the end of the function.
type_returns_early_NamedAllocates(tag) == tag \in {"BasicType", "Type::Subst"}

type_returns_early(tag) == tag \in {"BasicType", "Named", "Type::Subst"}

decompress_type(self, heap, compressed, kids) ==
    IF compressed.tag = "Type::Subst"
    THEN type_Subst(self, heap, compressed.sub)
    ELSE LET decompressed ==
                 CASE compressed.tag = "BasicType" -> Built(heap, compressed)
                   [] compressed.tag \in UnaryTags -> type_Unary(heap, compressed, kids)
                   [] compressed.tag = "Tuple" -> type_Tuple(heap, compressed, kids)
                   [] compressed.tag = "Named" -> type_Named(heap, compressed, kids)
                   [] compressed.tag = "Fn" -> type_Fn(heap, compressed, kids)
                   [] OTHER -> Built(heap, compressed)
         IN  IF type_returns_early(compressed.tag)
             THEN Outcome(self, decompressed.heap, <<decompressed.node>>)
             ELSE Outcome(alloc_subst(self, decompressed.node, "types"),
                          decompressed.heap, <<decompressed.node>>)

(* ------------------------------------------------------------------------ *)
(* decompress_symbol: a Symbol is a plain struct, rebuilt on return.        *)
(* ------------------------------------------------------------------------ *)

decompress_symbol_result(symbol, kids) == [symbol EXCEPT !.kids = kids]

(* ------------------------------------------------------------------------ *)
(* Evaluation order of a node's children, and the callee for each.          *)
(* ------------------------------------------------------------------------ *)

\* Fn that expands return_type before params.
EvalOrder_ReturnTypeFirst(node) == [k \in 1..Len(node.kids) |-> k]

\* Every rule walks its children in declaration order, except Fn, which maps
\* over params before it maps over return_type.
EvalOrder(node) ==
    LET n == Len(node.kids)
    IN  IF node.tag = "Fn" /\ node.opt
        THEN [k \in 1..n |-> IF k < n THEN k + 1 ELSE 1]
        ELSE [k \in 1..n |-> k]

\* The function each child is handed to.
Callee(node, i) ==
    CASE node.tag = "Symbol" -> IF i = 1 THEN "decompress_abs_path" ELSE "decompress_path_prefix"
      [] node.tag = "Path" -> IF i = 1 THEN "decompress_path_prefix" ELSE "decompress_type"
      [] node.tag = "TraitImpl" -> IF i = 1 THEN "decompress_type" ELSE "decompress_abs_path"
      [] node.tag = "Node" -> "decompress_path_prefix"
      [] node.tag = "Named" -> "decompress_abs_path"
      [] OTHER -> "decompress_type"

(* ------------------------------------------------------------------------ *)
(* The compressed inputs explored.  A compressed tree comes from the parser *)
(* with one allocation per node: the address of an input node is its        *)
(* position in the tree (0, then the child indices from the root).          *)
(* ------------------------------------------------------------------------ *)

SeqUpTo(S, n) == UNION {[1..k -> S] : k \in 0..n}
Option(S) == SeqUpTo(S, 1)
SubstIds == 0..MaxSubstId

BasicType == Node("BasicType", <<>>, 0, FALSE, "i32")
GenericParam == Node("GenericParam", <<>>, 0, FALSE, "T")
CrateId == Node("CrateId", <<>>, 0, FALSE, "std")
Subst(tag, id) == Node(tag, <<>>, id, FALSE, "")
PrefixNode(prefix) == Node("Node", <<prefix>>, 0, FALSE, "foo")
TraitImpl(self_type, impled_trait) ==
    Node("TraitImpl", <<self_type>> \o impled_trait, 0, impled_trait # <<>>, "dis")
Path(name, args) == Node("Path", <<name>> \o args, 0, FALSE, "")
Unary(tag, inner) == Node(tag, <<inner>>, 0, FALSE, "")
Tuple(components) == Node("Tuple", components, 0, FALSE, "")
Named(abs_path) == Node("Named", <<abs_path>>, 0, FALSE, "")
Fn(return_type, params) == Node("Fn", return_type \o params, 0, return_type # <<>>, "C")
Symbol(name, instantiating_crate) ==
    Node("Symbol", <<name>> \o instantiating_crate, 0, instantiating_crate # <<>>, "")

LeafTypes == {BasicType, GenericParam} \cup {Subst("Type::Subst", i) : i \in SubstIds}
FnLeafTypes == {BasicType, GenericParam, Subst("Type::Subst", 0)}
LeafPrefixes == {CrateId} \cup {Subst("PathPrefix::Subst", i) : i \in SubstIds}
ShortPaths ==
    {Path(p, a) : p \in LeafPrefixes, a \in Option({BasicType, GenericParam})}
    \cup {Subst("AbsolutePath::Subst", i) : i \in SubstIds}
NodePaths == {Path(PrefixNode(p), <<t>>) : p \in LeafPrefixes, t \in LeafTypes}
WrappedTypes ==
    {Unary(tag, t) : tag \in UnaryTags, t \in LeafTypes}
    \cup {Tuple(c) : c \in SeqUpTo(LeafTypes, MaxList)}
    \cup {Fn(r, ps) : r \in Option(FnLeafTypes), ps \in SeqUpTo(FnLeafTypes, MaxList)}
    \cup {Named(p) : p \in ShortPaths}
SelfTypes ==
    {BasicType, GenericParam, Subst("Type::Subst", 0), Unary("Ref", BasicType),
     Named(Path(CrateId, <<>>)), Named(Path(CrateId, <<BasicType>>))}
Prefixes ==
    LeafPrefixes
    \cup {PrefixNode(p) : p \in LeafPrefixes}
    \cup {PrefixNode(PrefixNode(CrateId))}
    \cup {TraitImpl(t, tr) : t \in SelfTypes, tr \in Option(ShortPaths \cup NodePaths)}
TailTypes ==
    {Subst("Type::Subst", i) : i \in SubstIds}
    \cup {Named(Subst("AbsolutePath::Subst", i)) : i \in SubstIds}

\* Symbols whose name has a structured prefix, few arguments and an
\* instantiating crate.
PrefixSymbols ==
    {Symbol(Path(p, a), ic) :
        p \in Prefixes,
        a \in Option({BasicType, Subst("Type::Subst", 0), Subst("Type::Subst", 1)}),
        ic \in Option({CrateId, Subst("PathPrefix::Subst", 0), Subst("PathPrefix::Subst", 1),
                        PrefixNode(Subst("PathPrefix::Subst", 0))})}

\* Symbols whose name has a structured first argument, followed by
\* back-references.
ArgumentSymbols ==
    {Symbol(Path(CrateId, <<t>> \o tail), <<>>) :
        t \in LeafTypes \cup WrappedTypes, tail \in Option(TailTypes)}

\* Symbols whose name has several structured arguments.
MixedTypes ==
    {GenericParam,
     Unary("Ref", BasicType),
     Unary("Array", Subst("Type::Subst", 1)),
     Named(Path(Subst("PathPrefix::Subst", 0), <<GenericParam>>)),
     Tuple(<<Subst("Type::Subst", 1), Subst("Type::Subst", 2)>>),
     Tuple(<<Subst("Type::Subst", 1), Named(Subst("AbsolutePath::Subst", 2))>>),
     Fn(<<GenericParam>>, <<BasicType, GenericParam>>),
     Subst("Type::Subst", 0),
     Named(Subst("AbsolutePath::Subst", 2))}
MixedSymbols ==
    {Symbol(Path(CrateId, a), <<>>) : a \in SeqUpTo(MixedTypes, MaxList + 1)}

\* Symbols whose name is itself a back-reference.
SubstSymbols ==
    {Symbol(Subst("AbsolutePath::Subst", i), ic) : i \in SubstIds, ic \in Option({CrateId})}

RECURSIVE Place(_, _)
Place(node, addr) ==
    [node EXCEPT !.addr = addr,
                 !.kids = [i \in 1..Len(node.kids) |-> Place(node.kids[i], Append(addr, i))]]

Inputs == {Place(s, <<0>>) : s \in PrefixSymbols \cup ArgumentSymbols \cup MixedSymbols \cup SubstSymbols}

(* ------------------------------------------------------------------------ *)
(* State.                                                                   *)
(* ------------------------------------------------------------------------ *)

VARIABLES
    symbol,         \* the compressed Symbol handed to decompress_ext
    path_prefixes,  \* Decompress.path_prefixes
    abs_paths,      \* Decompress.abs_paths
    types,          \* Decompress.types
    subst_counter,  \* Decompress.subst_counter
    heap,           \* number of Arc::new allocations made so far
    stack,          \* the call stack, innermost call last
    status,         \* "running", "returned" or "fatal" (unreachable!() hit)
    output,         \* <<>> or <<(decompressed, state)>>: what decompress_ext returned
    done,           \* history: the calls that have returned, in order of return
    allocs          \* history: which call inserted which table entry

vars == <<symbol, path_prefixes, abs_paths, types, subst_counter, heap, stack,
          status, output, done, allocs>>

Self == [path_prefixes |-> path_prefixes, abs_paths |-> abs_paths,
         types |-> types, subst_counter |-> subst_counter]

Frame(fn, arg, counter) == [fn |-> fn, arg |-> arg, rets |-> <<>>, c0 |-> counter]

\* decompress_ext up to its call of decompress_symbol: a fresh state.
Init ==
    /\ symbol \in Inputs
    /\ path_prefixes = HashMap_new
    /\ abs_paths = HashMap_new
    /\ types = HashMap_new
    /\ subst_counter = 0
    /\ heap = 0
    /\ stack = <<Frame("decompress_symbol", symbol, 0)>>
    /\ status = "running"
    /\ output = <<>>
    /\ done = <<>>
    /\ allocs = {}

Top == stack[Len(stack)]

\* The decompressed children of a frame, in declaration order.
Decompressed(f) ==
    [i \in 1..Len(f.arg.kids) |->
        f.rets[CHOOSE k \in 1..Len(f.arg.kids) : EvalOrder(f.arg)[k] = i]]

\* The top frame is in function fn and still has a child to expand: call it.
Call(fn) ==
    /\ status = "running"
    /\ Top.fn = fn
    /\ Len(Top.rets) < Len(Top.arg.kids)
    /\ LET i == EvalOrder(Top.arg)[Len(Top.rets) + 1]
       IN  stack' = Append(stack, Frame(Callee(Top.arg, i), Top.arg.kids[i], subst_counter))
    /\ UNCHANGED <<symbol, path_prefixes, abs_paths, types, subst_counter, heap,
                   status, output, done, allocs>>

NewEntries(dict, old, new, addr) ==
    {[id |-> k, dict |-> dict, pos |-> addr] : k \in (DOMAIN new) \ (DOMAIN old)}

\* The top frame is in function fn and all its children are expanded: run the
\* rule (outcome r) and return to the caller, or die in unreachable!().
Return(fn, r) ==
    /\ status = "running"
    /\ Top.fn = fn
    /\ Len(Top.rets) = Len(Top.arg.kids)
    /\ IF r.ret = <<>>
       THEN \* the panic: nothing is returned; the stack is left as it was
            /\ status' = "fatal"
            /\ UNCHANGED <<symbol, path_prefixes, abs_paths, types, subst_counter,
                           heap, stack, output, done, allocs>>
       ELSE /\ path_prefixes' = r.self.path_prefixes
            /\ abs_paths' = r.self.abs_paths
            /\ types' = r.self.types
            /\ subst_counter' = r.self.subst_counter
            /\ heap' = r.heap
            /\ done' = Append(done, [fn |-> fn, arg |-> Top.arg, kids |-> Decompressed(Top),
                                     ret |-> r.ret[1], c0 |-> Top.c0,
                                     c1 |-> r.self.subst_counter])
            /\ allocs' = allocs
                    \cup NewEntries("path_prefixes", path_prefixes, r.self.path_prefixes, Top.arg.addr)
                    \cup NewEntries("abs_paths", abs_paths, r.self.abs_paths, Top.arg.addr)
                    \cup NewEntries("types", types, r.self.types, Top.arg.addr)
            /\ IF Len(stack) > 1
               THEN /\ stack' = [SubSeq(stack, 1, Len(stack) - 1) EXCEPT
                                    ![Len(stack) - 1].rets = Append(@, r.ret[1])]
                    /\ UNCHANGED <<status, output>>
               ELSE \* decompress_ext returns (decompressed, state)
                    /\ stack' = <<>>
                    /\ status' = "returned"
                    /\ output' = <<[decompressed |-> r.ret[1], state |-> r.self]>>
            /\ UNCHANGED symbol

decompress_symbol_step ==
    \/ Call("decompress_symbol")
    \/ Return("decompress_symbol",
              Outcome(Self, heap, <<decompress_symbol_result(Top.arg, Decompressed(Top))>>))

decompress_abs_path_step ==
    \/ Call("decompress_abs_path")
    \/ Return("decompress_abs_path", decompress_abs_path(Self, heap, Top.arg, Decompressed(Top)))

decompress_path_prefix_step ==
    \/ Call("decompress_path_prefix")
    \/ Return("decompress_path_prefix", decompress_path_prefix(Self, heap, Top.arg, Decompressed(Top)))

decompress_type_step ==
    \/ Call("decompress_type")
    \/ Return("decompress_type", decompress_type(Self, heap, Top.arg, Decompressed(Top)))

Next ==
    \/ decompress_symbol_step
    \/ decompress_abs_path_step
    \/ decompress_path_prefix_step
    \/ decompress_type_step

Spec == Init /\ [][Next]_vars

(* ------------------------------------------------------------------------ *)
(* Vocabulary of the properties.                                            *)
(* ------------------------------------------------------------------------ *)

RECURSIVE HasSubst(_)
HasSubst(node) ==
    \/ node.tag \in SubstTags
    \/ \E i \in 1..Len(node.kids) : HasSubst(node.kids[i])

RECURSIVE TagsOf(_)
TagsOf(node) == {node.tag} \cup UNION {TagsOf(node.kids[i]) : i \in 1..Len(node.kids)}

\* A tree without its addresses: structural equality is equality of shapes.
RECURSIVE Shape(_)
Shape(node) ==
    [node EXCEPT !.addr = <<>>,
                 !.kids = [i \in 1..Len(node.kids) |-> Shape(node.kids[i])]]

\* The number of nodes of a tree whose tag is in tags; with argsOnly, a Path
\* is counted only when its args are non-empty.
RECURSIVE Count(_, _, _)
Count(node, tags, argsOnly) ==
    LET counted == /\ node.tag \in tags
                   /\ (argsOnly /\ node.tag = "Path") => args_of(node) # <<>>
        below[i \in 0..Len(node.kids)] ==
            IF i = 0 THEN 0 ELSE below[i - 1] + Count(node.kids[i], tags, argsOnly)
    IN  (IF counted THEN 1 ELSE 0) + below[Len(node.kids)]

IsProperPrefix(p, q) == Len(p) < Len(q) /\ SubSeq(q, 1, Len(p)) = p

Range(m) == {m[k] : k \in DOMAIN m}
Returned == {done[i] : i \in 1..Len(done)}
ReturnedBy(fn) == {d \in Returned : d.fn = fn}
\* The entries the call d inserted itself (not those of the calls below it).
OwnEntries(d) == {a \in allocs : a.pos = d.arg.addr}
\* The top frame is about to run its rule.
AtRule(fn, tags) ==
    /\ status = "running"
    /\ Top.fn = fn
    /\ Top.arg.tag \in tags
    /\ Len(Top.rets) = Len(Top.arg.kids)
\* This step was the return of a call; LastReturned' is its record.
LastReturned == done[Len(done)]
TablesUnchanged == UNCHANGED <<path_prefixes, abs_paths, types, subst_counter>>

(* ------------------------------------------------------------------------ *)
(* C1                                                                       *)
(* ------------------------------------------------------------------------ *)

\* C1: no node stored in any of the three tables contains a Subst variant,
\* and when decompress_ext returns, neither does the returned Symbol nor any
\* node of the returned tables.
C1_NoResidualSubst ==
    /\ \A n \in Range(path_prefixes) \cup Range(abs_paths) \cup Range(types) : ~HasSubst(n)
    /\ output # <<>> =>
          /\ ~HasSubst(output[1].decompressed)
          /\ \A n \in Range(output[1].state.path_prefixes)
                      \cup Range(output[1].state.abs_paths)
                      \cup Range(output[1].state.types) : ~HasSubst(n)

\* A run that returned on an input holding all three kinds of Subst, one of
\* them below a Node.
C1_Witness ==
    /\ status = "returned"
    /\ SubstTags \subseteq TagsOf(symbol)
    /\ \E d \in ReturnedBy("decompress_path_prefix") :
          d.arg.tag = "Node" /\ d.arg.kids[1].tag = "PathPrefix::Subst"
    /\ ~HasSubst(output[1].decompressed)

(* ------------------------------------------------------------------------ *)
(* C2                                                                       *)
(* ------------------------------------------------------------------------ *)

\* The tables a Subst of each category may be looked up in.
Applicable(tag) ==
    CASE tag = "PathPrefix::Subst" -> DOMAIN path_prefixes
      [] tag = "AbsolutePath::Subst" -> (DOMAIN abs_paths) \cup (DOMAIN path_prefixes)
      [] tag = "Type::Subst" -> (DOMAIN types) \cup (DOMAIN abs_paths) \cup (DOMAIN path_prefixes)

Dangling ==
    /\ status = "running"
    /\ Top.arg.tag \in SubstTags
    /\ Top.arg.sub \notin Applicable(Top.arg.tag)

\* C2: when expansion reaches a Subst(id) that none of the tables applicable
\* to its category holds, the next step is the fatal error; a fatal run has
\* returned nothing and takes no further step.
C2_FatalOnDangling ==
    [][/\ Dangling => status' = "fatal"
       /\ status' = "fatal" => output' = <<>>
       /\ status # "fatal"]_vars

\* A run that died on a PathPrefix::Subst(id) whose id is in the type table
\* or the absolute-path table.
C2_Witness ==
    /\ status = "fatal"
    /\ output = <<>>
    /\ Top.arg.tag = "PathPrefix::Subst"
    /\ Top.arg.sub \in (DOMAIN types) \cup (DOMAIN abs_paths)

(* ------------------------------------------------------------------------ *)
(* C4                                                                       *)
(* ------------------------------------------------------------------------ *)

AllocatingTypeTags == UnaryTags \cup {"GenericParam", "Tuple", "Fn"}

\* C4: a returned decompress_type call on BasicType or Named inserted no
\* entry of its own (BasicType leaves the counter where it was); a call on
\* GenericParam, Ref, RefMut, RawPtrConst, RawPtrMut, Array, Tuple or Fn
\* inserted exactly one entry, into the type table, holding the node it
\* returned.
C4_TypeAllocation ==
    \A d \in ReturnedBy("decompress_type") :
        /\ d.arg.tag = "BasicType" => OwnEntries(d) = {} /\ d.c1 = d.c0
        /\ d.arg.tag = "Named" =>
              /\ OwnEntries(d) = {}
              /\ \A a \in allocs : (a.dict = "types" /\ d.c0 <= a.id /\ a.id < d.c1)
                                       => IsProperPrefix(d.arg.addr, a.pos)
        /\ d.arg.tag \in AllocatingTypeTags =>
              \E a \in allocs :
                  /\ OwnEntries(d) = {a}
                  /\ a.dict = "types"
                  /\ a.id \in DOMAIN types
                  /\ types[a.id] = d.ret

\* A returned run that expanded a BasicType, a Named, a GenericParam, a
\* composite type it reused and a composite type it rebuilt.
C4_Witness ==
    /\ status = "returned"
    /\ {"BasicType", "Named", "GenericParam"} \subseteq {d.arg.tag : d \in ReturnedBy("decompress_type")}
    /\ \E d \in ReturnedBy("decompress_type") :
          d.arg.tag \in AllocatingTypeTags /\ d.arg.kids # <<>> /\ Arc_ptr_eq(d.ret, d.arg)
    /\ \E d \in ReturnedBy("decompress_type") :
          d.arg.tag \in AllocatingTypeTags /\ ~Arc_ptr_eq(d.ret, d.arg)

(* ------------------------------------------------------------------------ *)
(* C5                                                                       *)
(* ------------------------------------------------------------------------ *)

\* C5: the rule for Path inserts an absolute-path entry (the returned node,
\* under the current counter value) exactly when args is non-empty, and
\* nothing else; the rule for AbsolutePath::Subst(id) with id absent from the
\* absolute-path table and present in the path-prefix table returns a Path
\* whose name is the stored prefix and whose args are empty, and inserts
\* nothing.
C5_ZeroArgPathSharing ==
    [][/\ AtRule("decompress_abs_path", {"Path"}) =>
            /\ (abs_paths' # abs_paths) <=> (args_of(Top.arg) # <<>>)
            /\ args_of(Top.arg) # <<>> =>
                  /\ abs_paths' = HashMap_insert(abs_paths, subst_counter, LastReturned'.ret)
                  /\ subst_counter \notin DOMAIN abs_paths
                  /\ subst_counter' = subst_counter + 1
            /\ args_of(Top.arg) = <<>> => subst_counter' = subst_counter
            /\ UNCHANGED <<path_prefixes, types>>
       /\ ( /\ AtRule("decompress_abs_path", {"AbsolutePath::Subst"})
            /\ Top.arg.sub \notin DOMAIN abs_paths
            /\ Top.arg.sub \in DOMAIN path_prefixes ) =>
            /\ LastReturned'.arg = Top.arg
            /\ LastReturned'.ret.tag = "Path"
            /\ LastReturned'.ret.kids = <<path_prefixes[Top.arg.sub]>>
            /\ TablesUnchanged
      ]_vars

\* A returned run that expanded a Path without arguments, a Path with
\* arguments, and an AbsolutePath::Subst resolved through the path-prefix
\* table.
C5_Witness ==
    /\ status = "returned"
    /\ \E d \in ReturnedBy("decompress_abs_path") :
          d.arg.tag = "Path" /\ args_of(d.arg) = <<>> /\ OwnEntries(d) = {}
    /\ \E d \in ReturnedBy("decompress_abs_path") :
          d.arg.tag = "Path" /\ args_of(d.arg) # <<>> /\ OwnEntries(d) # {}
    /\ \E d \in ReturnedBy("decompress_abs_path") :
          /\ d.arg.tag = "AbsolutePath::Subst"
          /\ d.arg.sub \in DOMAIN path_prefixes
          /\ d.ret.kids = <<path_prefixes[d.arg.sub]>>

(* ------------------------------------------------------------------------ *)
(* C6                                                                       *)
(* ------------------------------------------------------------------------ *)

AllKeys == (DOMAIN path_prefixes) \cup (DOMAIN abs_paths) \cup (DOMAIN types)

KeptBy(old, new) == \A k \in DOMAIN old : k \in DOMAIN new /\ new[k] = old[k]

\* C6: in every state the key sets of the three tables are pairwise disjoint
\* and together are 0..subst_counter-1, and the returned table is the final
\* one; in every step the counter stays or grows by one, it grows exactly when
\* one entry is inserted, the inserted key is the counter's value before the
\* step, and every entry present before the step is still there, unchanged.
C6_TableInvariant ==
    /\ [](/\ (DOMAIN path_prefixes) \cap (DOMAIN abs_paths) = {}
          /\ (DOMAIN path_prefixes) \cap (DOMAIN types) = {}
          /\ (DOMAIN abs_paths) \cap (DOMAIN types) = {}
          /\ AllKeys = {k \in 0..subst_counter : k < subst_counter}
          /\ output # <<>> => output[1].state = Self)
    /\ [][/\ subst_counter' \in {subst_counter, subst_counter + 1}
          /\ KeptBy(path_prefixes, path_prefixes')
          /\ KeptBy(abs_paths, abs_paths')
          /\ KeptBy(types, types')
          /\ AllKeys' \ AllKeys = IF subst_counter' = subst_counter THEN {} ELSE {subst_counter}
         ]_vars

\* A returned run that inserted into each of the three tables.
C6_Witness ==
    /\ status = "returned"
    /\ DOMAIN path_prefixes # {}
    /\ DOMAIN abs_paths # {}
    /\ DOMAIN types # {}
    /\ subst_counter >= 4

(* ------------------------------------------------------------------------ *)
(* C3                                                                       *)
(* ------------------------------------------------------------------------ *)

CompositeTags ==
    {"TraitImpl", "Node", "Path", "Tuple", "Named", "Fn"} \cup UnaryTags

ChildrenUnchanged(d) ==
    \A i \in 1..Len(d.arg.kids) : Arc_ptr_eq(d.kids[i], d.arg.kids[i])

\* C3: every returned call on a composite node whose children all expanded
\* to the very same child nodes returned the very same node it was given.
C3_StructuralReuse ==
    \A d \in Returned :
        (d.arg.tag \in CompositeTags /\ ChildrenUnchanged(d)) => Arc_ptr_eq(d.ret, d.arg)

\* C3 for every composite but TraitImpl, whose rule has no reuse test.
C3_ReuseExceptTraitImpl ==
    \A d \in Returned :
        (d.arg.tag \in CompositeTags \ {"TraitImpl"} /\ ChildrenUnchanged(d))
            => Arc_ptr_eq(d.ret, d.arg)

(* ------------------------------------------------------------------------ *)
(* C7                                                                       *)
(* ------------------------------------------------------------------------ *)

\* The compressed path of the scenario, expanded when id 0 is already taken.
Scenario(d) ==
    /\ d.fn = "decompress_abs_path"
    /\ Shape(d.arg) = Path(PrefixNode(CrateId), <<Subst("Type::Subst", 0)>>)
    /\ d.c0 >= 1

\* The three entries of the scenario: the path, its Node and its CrateId.
ScenarioEntries(d) ==
    /\ d.c1 = d.c0 + 3
    /\ {[dict |-> a.dict, pos |-> a.pos] : a \in {b \in allocs : d.c0 <= b.id /\ b.id < d.c1}}
         = {[dict |-> "abs_paths", pos |-> d.arg.addr],
            [dict |-> "path_prefixes", pos |-> Append(d.arg.addr, 1)],
            [dict |-> "path_prefixes", pos |-> d.arg.addr \o <<1, 1>>]}
    /\ \E k \in DOMAIN abs_paths : abs_paths[k] = d.ret

ResolvesZero(t) ==
    \/ 0 \in DOMAIN types /\ t = types[0]
    \/ 0 \in DOMAIN abs_paths /\ t.tag = "Named" /\ t.kids = <<abs_paths[0]>>
    \/ /\ 0 \in DOMAIN path_prefixes
       /\ t.tag = "Named"
       /\ t.kids[1].tag = "Path"
       /\ t.kids[1].kids = <<path_prefixes[0]>>

C8_TypeSubstPrecedence ==
    [][(AtRule("decompress_type", {"Type::Subst"}) /\ ~Dangling) =>
            LET id == Top.arg.sub
                r == LastReturned'.ret
            IN  /\ Len(done') = Len(done) + 1
                /\ LastReturned'.arg = Top.arg
                /\ TablesUnchanged
                /\ IF id \in DOMAIN types
                   THEN r = types[id]
                   ELSE IF id \in DOMAIN abs_paths
                   THEN r.tag = "Named" /\ r.kids = <<abs_paths[id]>>
                   ELSE /\ r.tag = "Named"
                        /\ Len(r.kids) = 1
                        /\ r.kids[1].tag = "Path"
                        /\ r.kids[1].kids = <<path_prefixes[id]>>
      ]_vars

\* A returned run with a Type::Subst resolved through each of the tables.
C8_Witness ==
    /\ status = "returned"
    /\ \E d \in ReturnedBy("decompress_type") :
          d.arg.tag = "Type::Subst" /\ d.arg.sub \in DOMAIN types /\ d.ret = types[d.arg.sub]
    /\ \E d \in ReturnedBy("decompress_type") :
          /\ d.arg.tag = "Type::Subst"
          /\ d.arg.sub \in DOMAIN abs_paths
          /\ d.ret.kids = <<abs_paths[d.arg.sub]>>
    /\ \E d \in ReturnedBy("decompress_type") :
          /\ d.arg.tag = "Type::Subst"
          /\ d.arg.sub \in DOMAIN path_prefixes
          /\ d.ret.kids[1].kids = <<path_prefixes[d.arg.sub]>>

(* ------------------------------------------------------------------------ *)
(* C9                                                                       *)
(* ------------------------------------------------------------------------ *)

RECURSIVE NodeAt(_, _)
NodeAt(node, path) ==
    IF path = <<>> THEN node ELSE NodeAt(node.kids[Head(path)], Tail(path))

\* The input node at an address.
InputAt(addr) == NodeAt(symbol, Tail(addr))

\* The claimed place of child i among its siblings: declaration order, but
\* the return_type of a Fn (its first field) after all params.
ClaimedRank(node, i) ==
    IF node.tag = "Fn" /\ node.opt /\ i = 1 THEN Len(node.kids) + 1 ELSE i

\* Addresses p and q part below the node at their first k components.
PartAt(p, q, k) ==
    /\ k < Len(p)
    /\ k < Len(q)
    /\ SubSeq(p, 1, k) = SubSeq(q, 1, k)
    /\ p[k + 1] # q[k + 1]

\* C9: the id of a node's entry is greater than the id of every entry made
\* below it, and of two entries made below different children of one node the
\* one below the earlier child (name before instantiating_crate, name before
\* args, args and components and params left to right, self_type before
\* impled_trait, params before return_type) has the smaller id.
C9_NumberingOrder ==
    \A a, b \in allocs :
        /\ IsProperPrefix(a.pos, b.pos) => b.id < a.id
        /\ \A k \in 1..Len(a.pos) :
              (/\ PartAt(a.pos, b.pos, k)
               /\ ClaimedRank(InputAt(SubSeq(a.pos, 1, k)), a.pos[k + 1])
                    < ClaimedRank(InputAt(SubSeq(a.pos, 1, k)), b.pos[k + 1]))
                  => a.id < b.id

\* A returned run with a Fn whose return_type, two params and own node each
\* got an entry.
C9_Witness ==
    /\ status = "returned"
    /\ \E d \in ReturnedBy("decompress_type") :
          /\ d.arg.tag = "Fn"
          /\ d.arg.opt
          /\ Len(d.arg.kids) = 3
          /\ \E r, p1, p2, f \in allocs :
                /\ r.pos = Append(d.arg.addr, 1)
                /\ p1.pos = Append(d.arg.addr, 2)
                /\ p2.pos = Append(d.arg.addr, 3)
                /\ f.pos = d.arg.addr
                /\ p1.id < p2.id /\ p2.id < r.id /\ r.id < f.id

(* ------------------------------------------------------------------------ *)
(* C10                                                                      *)
(* ------------------------------------------------------------------------ *)

\* C10: when decompress_ext returns, the path-prefix table has one entry per
\* CrateId, TraitImpl and Node of the input, the absolute-path table one per
\* Path with non-empty args, the type table one per Type node other than
\* BasicType, Named and Subst, and the counter is the sum of the three.
C10_SizesFollowShape ==
    status = "returned" =>
        /\ Cardinality(DOMAIN output[1].state.path_prefixes)
              = Count(symbol, {"CrateId", "TraitImpl", "Node"}, FALSE)
        /\ Cardinality(DOMAIN output[1].state.abs_paths) = Count(symbol, {"Path"}, TRUE)
        /\ Cardinality(DOMAIN output[1].state.types) = Count(symbol, AllocatingTypeTags, FALSE)
        /\ output[1].state.subst_counter
              = Count(symbol, {"CrateId", "TraitImpl", "Node"}, FALSE)
                + Count(symbol, {"Path"}, TRUE)
                + Count(symbol, AllocatingTypeTags, FALSE)

\* A returned run on an input with all three kinds of Subst and entries in
\* all three tables.
C10_Witness ==
    /\ status = "returned"
    /\ SubstTags \subseteq TagsOf(symbol)
    /\ DOMAIN output[1].state.path_prefixes # {}
    /\ DOMAIN output[1].state.abs_paths # {}
    /\ DOMAIN output[1].state.types # {}

====
